---- MODULE Spec2Model ----
(***************************************************************************)
(* The UI smoke runner (src/unnamed/part_000): one run of main(), from the *)
(* construction of the diagnostics record to the end of the run.  Every    *)
(* call of the automation engine, of the file system and of the install    *)
(* command is an input of the run: the action that models the call draws   *)
(* its outcome (success, or the text of the error thrown) with \E.         *)
(*                                                                         *)
(* An error text is modelled by the set of signature fragments it          *)
(* contains; the regular expressions of the classifiers are evaluated on   *)
(* that set.  Time stamps and paths are left out of the log records.       *)
(*                                                                         *)
(* Of the file-system calls, writeDiagnostics may reject (it is the only   *)
(* way the finalizer of main()'s finally block is reached); fs.mkdir and   *)
(* the log write of stop() succeed.  The exit code is process.exitCode as  *)
(* conclude sets it; rejected records that main()'s promise rejected.      *)
(***************************************************************************)
EXTENDS Integers, Sequences, FiniteSets, TLC

VARIABLES
    env,            \* process.env, read-only for the run
    diagnostics,    \* the diagnostics record of main()
    pc,             \* position of main()
    playwright,     \* result of resolvePlaywright: "unresolved", "module", "null", "threw"
    call,           \* arguments and call site of the pending conclude()
    finalLine,      \* <<>> for null, else <<the summary line>>
    stdout,         \* the JSON lines written by console.log in conclude
    persisted,      \* snapshots of (result, classification) written by writeDiagnostics
    processExitCode,\* process.exitCode (0 while unset)
    thrown,         \* <<>> or <<text of the error in flight>>
    rejected,       \* main()'s promise rejected
    server,         \* "none", "running", "stopped"
    stopCalls,      \* number of calls of serverCtx.stop()
    browser,        \* "none", "open", "closed"
    candidateIdx,   \* next candidate of launchBrowser
    attempt,        \* loop counter i of gotoWithRetry
    lastError,      \* lastError of gotoWithRetry, <<>> or <<text>>
    failedAt,       \* phase whose call threw once a browser was live
    failure,        \* text of that error
    writeFailures,  \* number of rejected writeDiagnostics calls
    concludeCalls,  \* number of invocations of conclude
    preflight,      \* state of playwrightPreflight() (src/playwright/preflight.mjs)
    probesIssued    \* number of httpHead calls made by waitForServer

vars == <<env, diagnostics, pc, playwright, call, finalLine, stdout, persisted,
          processExitCode, thrown, rejected, server, stopCalls, browser,
          candidateIdx, attempt, lastError, failedAt, failure, writeFailures,
          concludeCalls, preflight, probesIssued>>

-----------------------------------------------------------------------------
\* Bounds of the model.

\* Probes one waitForServer call issues before it returns or times out.
MaxProbes == 2
\* writeDiagnostics calls of one run that may reject.
MaxWriteFailures == 2

-----------------------------------------------------------------------------
\* Constants of the program.

Null == "null"
hosts == <<"127.0.0.1", "localhost">>
screenshotPath == "artifacts/ui-smoke/screenshot.png"
sanityPath == "artifacts/ui-smoke/sanity.png"
tracePath == "artifacts/ui-smoke/trace.zip"
HttpAttempts == 3
FileAttempts == 2
exitCode == 0

\* Values of the environment variables the run reads.
CIValues == {"unset", "true", "1"}
StrictValues == {"unset", "1"}
SkipValues == {"unset", "1", "true"}
AllowHttpValues == {"unset", "1", "true"}

\* JavaScript truthiness of an environment variable.
Truthy(v) == v # "unset"

-----------------------------------------------------------------------------
\* Error texts and the classifiers.

\* Whether a fragment of an error text is matched by one alternative of a
\* (case-insensitive) regular expression.
FragmentMatches(fragment, alternative) ==
    \/ fragment = alternative
    \/ fragment = "browserType.launch: Executable" /\ alternative = "BrowserType.launch"

TextMatches(text, alternatives) ==
    \E f \in text : \E a \in alternatives : FragmentMatches(f, a)

MissingPlaywrightSignatures == {"Cannot find package 'playwright'"}

MissingBrowserBinarySignatures ==
    {"Executable doesn't exist",
     "please run the following command to download new browsers",
     "browserType.launch: Executable",
     "browser not found",
     "No such file or directory.*playwright"}

ConnectivitySignatures ==
    {"ERR_EMPTY_RESPONSE", "ERR_CONNECTION", "ECONNREFUSED", "Navigation timeout"}

RuntimeSignatures ==
    {"TargetClosedError", "BrowserType.launch", "crash", "SIGSEGV",
     "Connection terminated unexpectedly"}

HttpReachabilitySignatures ==
    {"ERR_EMPTY_RESPONSE", "ERR_CONNECTION", "ECONNREFUSED",
     "Connection terminated unexpectedly", "Navigation timeout"}

isMissingPlaywrightError(error) ==
    error.code = "ERR_MODULE_NOT_FOUND" \/ TextMatches(error.text, MissingPlaywrightSignatures)

isMissingBrowserBinaryError(text) == TextMatches(text, MissingBrowserBinarySignatures)

\* classifyFailure with the runtime test moved ahead of the connectivity test.
classifyFailureRuntimeFirst(text) ==
    IF isMissingBrowserBinaryError(text) THEN "binary-installation-failure"
    ELSE IF TextMatches(text, RuntimeSignatures) THEN "browser-runtime-failure"
    ELSE IF TextMatches(text, ConnectivitySignatures) THEN "connectivity-failure"
    ELSE "application-failure"

classifyFailure(text) ==
    IF isMissingBrowserBinaryError(text) THEN "binary-installation-failure"
    ELSE IF TextMatches(text, ConnectivitySignatures) THEN "connectivity-failure"
    ELSE IF TextMatches(text, RuntimeSignatures) THEN "browser-runtime-failure"
    ELSE "application-failure"

isHttpReachabilityError(text) == TextMatches(text, HttpReachabilitySignatures)

\* The classifier of src/playwright/preflight.mjs.
PreflightBinarySignatures ==
    {"Executable doesn't exist",
     "browserType.launch: Executable",
     "please run the following command to download new browsers",
     "browser not found",
     "failed to launch browser process"}

PreflightConnectivitySignatures ==
    {"ECONNREFUSED", "ERR_CONNECTION", "ERR_EMPTY_RESPONSE", "Navigation timeout"}

PreflightRuntimeSignatures ==
    {"TargetClosedError", "has been closed", "crash", "SIGSEGV"}

looksLikeMissingPlaywright(error) ==
    error.code = "ERR_MODULE_NOT_FOUND" \/ TextMatches(error.text, MissingPlaywrightSignatures)

looksLikeMissingBrowserBinary(text) == TextMatches(text, PreflightBinarySignatures)

classifyBrowserLaunchError(text) ==
    IF looksLikeMissingBrowserBinary(text) THEN "binary-installation-failure"
    ELSE IF TextMatches(text, PreflightConnectivitySignatures) THEN "connectivity-failure"
    ELSE IF TextMatches(text, PreflightRuntimeSignatures) THEN "browser-runtime-failure"
    ELSE "unknown-browser-failure"

\* Every fragment either file's classifier looks for.
Fragments ==
    MissingBrowserBinarySignatures \cup ConnectivitySignatures \cup RuntimeSignatures
    \cup PreflightBinarySignatures \cup PreflightRuntimeSignatures

\* The error texts the engine's calls throw in this model: one without any
\* signature, one per class, and one that is a reachability error without being
\* of the connectivity class.
ErrorTexts ==
    {{},
     {"Executable doesn't exist"},
     {"ECONNREFUSED"},
     {"crash"},
     {"Connection terminated unexpectedly"}}

\* The error texts browserType.launch throws in this model: a missing
\* executable, and a crash of the browser process.
LaunchErrorTexts ==
    {{"Executable doesn't exist"},
     {"crash"}}

\* Outcomes of import('playwright').
ImportOutcomes ==
    {[ok |-> TRUE, code |-> "none", text |-> {}],
     [ok |-> FALSE, code |-> "ERR_MODULE_NOT_FOUND", text |-> {"Cannot find package 'playwright'"}],
     [ok |-> FALSE, code |-> "none", text |-> {"Cannot find package 'playwright'"}],
     [ok |-> FALSE, code |-> "none", text |-> {}]}

\* Text of the error a rejected fs.writeFile throws, and of the Error main
\* throws when the server is unreachable.
WriteErrorText == {}
ServerUnreachableText == {}

HttpDisabledReason ==
    {"HTTP strategy disabled unless UI_SMOKE_ALLOW_HTTP=1 (default is file-safe mode for remote browser sandboxes)."}

-----------------------------------------------------------------------------
\* The initial state: main() has built the diagnostics record.

NewDiagnostics(e) ==
    [serverHealthChecks |-> <<>>,
     navigationAttempts |-> <<>>,
     navigationErrors |-> <<>>,
     navigationStrategyAttempts |-> <<>>,
     navigationFallbacks |-> <<>>,
     navigationStrategyUsed |-> Null,
     browserAttempts |-> <<>>,
     browserLaunchErrors |-> <<>>,
     classification |-> "unknown",
     result |-> "running",
     ci |-> (e.CI = "true"),
     strict |-> (e.PLAYWRIGHT_STRICT = "1"),
     envSkipBrowserDownload |->
         (e.PLAYWRIGHT_SKIP_BROWSER_DOWNLOAD = "1" \/ e.PLAYWRIGHT_SKIP_BROWSER_DOWNLOAD = "true"),
     \* fields main() adds later; <<>> and Null stand for undefined
     binaryChecks |-> <<>>,
     installAttempt |-> <<>>,
     selectedHost |-> Null,
     browserUsed |-> Null,
     baseUrl |-> Null,
     sanityScreenshot |-> Null,
     screenshot |-> Null,
     trace |-> Null,
     navigationHttpOptIn |-> FALSE,
     error |-> <<>>,
     finished |-> FALSE]

NoCall == [status |-> Null, classification |-> Null, exit |-> 0, site |-> Null]

\* The value playwrightPreflight() returns; this one stands for none yet.
NoResult == [ok |-> FALSE, reason |-> Null, classification |-> Null, message |-> {}]

\* playwrightPreflight() has not been called.
NoPreflight ==
    [pc |-> "idle", index |-> 1, open |-> {}, error |-> {}, result |-> NoResult]

\* main() is at the given position with a fresh diagnostics record; text is
\* the error text under classification, if any.
MainAt(position, text) ==
    /\ diagnostics = NewDiagnostics(env)
    /\ pc = position
    /\ failure = text
    /\ playwright = "unresolved"
    /\ call = NoCall
    /\ finalLine = <<>>
    /\ stdout = <<>>
    /\ persisted = <<>>
    /\ processExitCode = 0
    /\ thrown = <<>>
    /\ rejected = FALSE
    /\ server = "none"
    /\ stopCalls = 0
    /\ browser = "none"
    /\ candidateIdx = 1
    /\ attempt = 0
    /\ lastError = <<>>
    /\ failedAt = "none"
    /\ writeFailures = 0
    /\ concludeCalls = 0
    /\ probesIssued = 0

Init ==
    /\ env \in [CI : CIValues, PLAYWRIGHT_STRICT : StrictValues,
                PLAYWRIGHT_SKIP_BROWSER_DOWNLOAD : SkipValues,
                UI_SMOKE_ALLOW_HTTP : AllowHttpValues]
    /\ MainAt("resolve", {})
    /\ preflight = NoPreflight

-----------------------------------------------------------------------------
\* The conclusions main() passes to conclude(status, classification, details, exit).

Conclusion(status, classification, exit) ==
    [status |-> status, classification |-> classification, exit |-> exit]

\* Mutant of StrictExit: strict mode is not consulted.
StrictExitIgnoringStrict(strict) == 0

StrictExit(strict) == IF strict THEN 1 ELSE 0

\* Mutant of MissingEngineConclusion: a missing engine is reported as a skip.
MissingEngineAsSkip == Conclusion("skipped", "binary-installation-blocked", 0)

MissingEngineConclusion == Conclusion("failed", "installable-missing", 1)

SkipDownloadConclusion(strict) ==
    Conclusion("skipped", "binary-installation-blocked", StrictExit(strict))

\* Mutant of InstallFailedConclusion: the CI branch is missing.
InstallFailedIgnoringCi(blocked, ci, strict) ==
    IF blocked THEN Conclusion("skipped", "binary-installation-blocked", StrictExit(strict))
    ELSE Conclusion("failed", "installable-missing", 1)

InstallFailedConclusion(blocked, ci, strict) ==
    IF blocked THEN Conclusion("skipped", "binary-installation-blocked", StrictExit(strict))
    ELSE IF ci /\ ~strict THEN Conclusion("skipped", "binary-installation-blocked", 0)
    ELSE Conclusion("failed", "installable-missing", 1)

StillMissingConclusion(ci, strict) ==
    IF ci /\ ~strict THEN Conclusion("skipped", "binary-installation-blocked", 0)
    ELSE Conclusion("failed", "installable-missing", 1)

LaunchFailedConclusion == Conclusion("failed", "test-failure", 1)

\* Mutant of PassedConclusion: the success path sets exit code 1.
PassedWithExitOne == Conclusion("passed", "success", 1)

PassedConclusion == Conclusion("passed", "success", 0)

CatchConclusion(classification, strict) ==
    IF classification \in {"binary-installation-failure", "browser-runtime-failure"}
    THEN Conclusion("skipped", "binary-installation-blocked", StrictExit(strict))
    ELSE Conclusion("failed", "test-failure", 1)

FinalizerConclusion ==
    Conclusion(IF exitCode = 0 THEN "passed" ELSE "failed",
               IF exitCode = 0 THEN "success" ELSE "test-failure",
               exitCode)

\* main() reaches a call of conclude at the given site.
CallConclude(c, site) ==
    /\ call' = [status |-> c.status, classification |-> c.classification,
                exit |-> c.exit, site |-> site]
    /\ pc' = "conclude"

-----------------------------------------------------------------------------
\* Capability prober.

\* resolvePlaywright, and main()'s branch on its result.
ResolvePlaywright ==
    /\ pc = "resolve"
    /\ \E imp \in ImportOutcomes :
        IF imp.ok
        THEN /\ playwright' = "module"
             /\ pc' = "afterResolve"
             /\ UNCHANGED <<diagnostics, call, thrown, rejected>>
        ELSE IF isMissingPlaywrightError(imp)
        THEN /\ playwright' = "null"
             /\ diagnostics' = [diagnostics EXCEPT
                                  !.classification = "binary-installation-failure",
                                  !.result = "playwright-missing"]
             /\ CallConclude(MissingEngineConclusion, "pre")
             /\ UNCHANGED <<thrown, rejected>>
        ELSE /\ playwright' = "threw"
             /\ thrown' = <<imp.text>>
             /\ rejected' = TRUE
             /\ pc' = "done"
             /\ UNCHANGED <<diagnostics, call>>
    /\ UNCHANGED <<env, preflight, probesIssued, finalLine, stdout, persisted, processExitCode, server,
                   stopCalls, browser, candidateIdx, attempt, lastError, failedAt,
                   failure, writeFailures, concludeCalls>>

\* main(): the skip-download policy.
SkipBrowserDownload ==
    /\ pc = "afterResolve"
    /\ diagnostics.envSkipBrowserDownload
    /\ CallConclude(SkipDownloadConclusion(diagnostics.strict), "pre")
    /\ UNCHANGED <<env, preflight, probesIssued, diagnostics, playwright, finalLine, stdout, persisted,
                   processExitCode, thrown, rejected, server, stopCalls, browser,
                   candidateIdx, attempt, lastError, failedAt, failure,
                   writeFailures, concludeCalls>>

\* Browsers whose executables are checked and installed.
Targets == IF Truthy(env.CI) THEN <<"chromium">> ELSE <<"chromium", "webkit">>

BinaryChecks(exists) ==
    [i \in 1..Len(Targets) |-> [browser |-> Targets[i], exists |-> exists[i]]]

AllExist(checks) == \A i \in 1..Len(checks) : checks[i].exists

\* detectBrowserExecutables, first call, and main()'s branch on browsersReady.
DetectBrowserExecutables ==
    /\ pc = "afterResolve"
    /\ ~diagnostics.envSkipBrowserDownload
    /\ \E exists \in [1..Len(Targets) -> BOOLEAN] :
        /\ diagnostics' = [diagnostics EXCEPT !.binaryChecks = BinaryChecks(exists)]
        /\ pc' = IF AllExist(BinaryChecks(exists)) THEN "startServer" ELSE "install"
    /\ UNCHANGED <<env, preflight, probesIssued, playwright, call, finalLine, stdout, persisted,
                   processExitCode, thrown, rejected, server, stopCalls, browser,
                   candidateIdx, attempt, lastError, failedAt, failure,
                   writeFailures, concludeCalls>>

InstallArgs(withDeps) ==
    <<"playwright", "install">>
    \o (IF withDeps THEN <<"--with-deps">> ELSE <<>>)
    \o Targets

\* runPlaywrightInstall(diagnostics, CI === 'true'), and main()'s branch on
\* install.ok.
RunPlaywrightInstall ==
    /\ pc = "install"
    /\ \E ok \in BOOLEAN, blocked \in BOOLEAN :
        /\ diagnostics' = [diagnostics EXCEPT !.installAttempt =
               <<[command |-> InstallArgs(env.CI = "true"), ok |-> ok, blocked |-> blocked]>>]
        /\ IF ok
           THEN pc' = "redetect" /\ UNCHANGED call
           ELSE CallConclude(
                    InstallFailedConclusion(blocked, diagnostics.ci, diagnostics.strict),
                    "pre")
    /\ UNCHANGED <<env, preflight, probesIssued, playwright, finalLine, stdout, persisted,
                   processExitCode, thrown, rejected, server, stopCalls, browser,
                   candidateIdx, attempt, lastError, failedAt, failure,
                   writeFailures, concludeCalls>>

\* detectBrowserExecutables after a successful install, and main()'s branch.
RedetectBrowserExecutables ==
    /\ pc = "redetect"
    /\ \E exists \in [1..Len(Targets) -> BOOLEAN] :
        /\ diagnostics' = [diagnostics EXCEPT !.binaryChecks = BinaryChecks(exists)]
        /\ IF AllExist(BinaryChecks(exists))
           THEN pc' = "startServer" /\ UNCHANGED call
           ELSE CallConclude(StillMissingConclusion(diagnostics.ci, diagnostics.strict), "pre")
    /\ UNCHANGED <<env, preflight, probesIssued, playwright, finalLine, stdout, persisted,
                   processExitCode, thrown, rejected, server, stopCalls, browser,
                   candidateIdx, attempt, lastError, failedAt, failure,
                   writeFailures, concludeCalls>>

-----------------------------------------------------------------------------
\* Server lifecycle manager.

\* What one waitForServer call observes: n probes, the last of them ok or not
\* (the loop returns at the first ok probe, or when the time is up).
ProbeOutcomes == [n : 1..MaxProbes, ok : BOOLEAN]

Probes(host, outcome) ==
    [i \in 1..outcome.n |-> [host |-> host, ok |-> (outcome.ok /\ i = outcome.n)]]

\* The loop of startServer over hosts: selectedHost after the calls whose
\* results are oks.
\* Mutant of SelectHost: a later reachable host replaces an earlier one.
RECURSIVE SelectHostLastWins(_, _, _)
SelectHostLastWins(oks, i, selected) ==
    IF i > Len(hosts) THEN selected
    ELSE SelectHostLastWins(oks, i + 1, IF oks[i] THEN hosts[i] ELSE selected)

RECURSIVE SelectHost(_, _, _)
SelectHost(oks, i, selected) ==
    IF i > Len(hosts) THEN selected
    ELSE SelectHost(oks, i + 1,
                    IF oks[i] /\ selected = Null THEN hosts[i] ELSE selected)

\* The number of httpHead calls the waitForServer calls made.
RECURSIVE ProbeCount(_, _)
ProbeCount(outcomes, i) ==
    IF i > Len(hosts) THEN 0
    ELSE outcomes[i].n + ProbeCount(outcomes, i + 1)

RECURSIVE AllProbes(_, _)
AllProbes(outcomes, i) ==
    IF i > Len(hosts) THEN <<>>
    ELSE Probes(hosts[i], outcomes[i]) \o AllProbes(outcomes, i + 1)

startServer ==
    /\ pc = "startServer"
    /\ \E outcomes \in [1..Len(hosts) -> ProbeOutcomes] :
        /\ diagnostics' = [diagnostics EXCEPT
              !.serverHealthChecks = @ \o AllProbes(outcomes, 1),
              !.selectedHost =
                  SelectHost([i \in 1..Len(hosts) |-> outcomes[i].ok], 1, Null)]
        /\ probesIssued' = ProbeCount(outcomes, 1)
    /\ server' = "running"
    /\ pc' = "try"
    /\ UNCHANGED <<env, preflight, playwright, call, finalLine, stdout, persisted,
                   processExitCode, thrown, rejected, stopCalls, browser,
                   candidateIdx, attempt, lastError, failedAt, failure,
                   writeFailures, concludeCalls>>

\* main(): no host became reachable.
ServerUnreachable ==
    /\ pc = "try"
    /\ diagnostics.selectedHost = Null
    /\ diagnostics' = [diagnostics EXCEPT !.classification = "connectivity-failure",
                                          !.result = "failed"]
    /\ thrown' = <<ServerUnreachableText>>
    /\ pc' = "catch"
    /\ UNCHANGED <<env, preflight, probesIssued, playwright, call, finalLine, stdout, persisted,
                   processExitCode, rejected, server, stopCalls, browser,
                   candidateIdx, attempt, lastError, failedAt, failure,
                   writeFailures, concludeCalls>>

-----------------------------------------------------------------------------
\* Browser launch.

candidates == IF Truthy(env.CI) THEN <<"chromium">> ELSE <<"chromium", "webkit">>

\* Mutant of LaunchError: the launch error of a candidate is not logged.
LaunchErrorUnlogged(d, name, error) ==
    IF isMissingBrowserBinaryError(error)
    THEN [d EXCEPT !.classification = "binary-installation-failure",
                   !.result = "browser-binaries-missing"]
    ELSE d

\* The catch block of the loop of launchBrowser.
LaunchError(d, name, error) ==
    IF isMissingBrowserBinaryError(error)
    THEN [d EXCEPT
            !.browserLaunchErrors = Append(@, [browser |-> name, error |-> error]),
            !.classification = "binary-installation-failure",
            !.result = "browser-binaries-missing"]
    ELSE [d EXCEPT
            !.browserLaunchErrors = Append(@, [browser |-> name, error |-> error])]

\* One iteration of the loop of launchBrowser; on success main() records
\* browserUsed.
LaunchCandidate ==
    /\ pc = "try"
    /\ diagnostics.selectedHost # Null
    /\ candidateIdx <= Len(candidates)
    /\ LET name == candidates[candidateIdx]
           tried == [diagnostics EXCEPT !.browserAttempts = Append(@, name)]
       IN \/ /\ diagnostics' = [tried EXCEPT !.browserUsed = name]
             /\ browser' = "open"
             /\ pc' = "sanity"
             /\ UNCHANGED candidateIdx
          \/ \E error \in LaunchErrorTexts :
             /\ diagnostics' = LaunchError(tried, name, error)
             /\ candidateIdx' = candidateIdx + 1
             /\ UNCHANGED <<browser, pc>>
    /\ UNCHANGED <<env, preflight, probesIssued, playwright, call, finalLine, stdout, persisted,
                   processExitCode, thrown, rejected, server, stopCalls,
                   attempt, lastError, failedAt, failure, writeFailures,
                   concludeCalls>>

\* launchBrowser returned null: main()'s branch on !browserCtx.
LaunchFailed ==
    /\ pc = "try"
    /\ diagnostics.selectedHost # Null
    /\ candidateIdx > Len(candidates)
    /\ diagnostics' = [diagnostics EXCEPT !.result = "skipped"]
    /\ CallConclude(LaunchFailedConclusion, "tryLaunch")
    /\ UNCHANGED <<env, preflight, probesIssued, playwright, finalLine, stdout, persisted,
                   processExitCode, thrown, rejected, server, stopCalls, browser,
                   candidateIdx, attempt, lastError, failedAt, failure,
                   writeFailures, concludeCalls>>

-----------------------------------------------------------------------------
\* Sanity check and application check.

\* A call made while the browser is live throws: the error leaves the inner
\* try of main() through its finally block.
Throw(phase, error) ==
    /\ thrown' = <<error>>
    /\ failedAt' = phase
    /\ failure' = error
    /\ pc' = "browserFinally"

runSanity ==
    /\ pc = "sanity"
    /\ \/ /\ diagnostics' = [diagnostics EXCEPT
                !.sanityScreenshot = sanityPath,
                !.baseUrl = diagnostics.selectedHost]
          /\ pc' = "appContext"
          /\ UNCHANGED <<thrown, failedAt, failure>>
       \/ \E error \in ErrorTexts :
          /\ Throw("sanity", error)
          /\ UNCHANGED diagnostics
    /\ UNCHANGED <<env, preflight, probesIssued, playwright, call, finalLine, stdout, persisted,
                   processExitCode, rejected, server, stopCalls, browser,
                   candidateIdx, attempt, lastError, writeFailures,
                   concludeCalls>>

\* runAppScreenshot up to its try block: newContext, tracing.start, newPage.
AppContext ==
    /\ pc = "appContext"
    /\ \/ /\ pc' = "navigate"
          /\ UNCHANGED <<thrown, failedAt, failure>>
       \/ \E error \in ErrorTexts : Throw("context", error)
    /\ UNCHANGED <<env, preflight, probesIssued, diagnostics, playwright, call, finalLine, stdout,
                   persisted, processExitCode, rejected, server, stopCalls,
                   browser, candidateIdx, attempt, lastError, writeFailures,
                   concludeCalls>>

\* The catch and finally blocks of runAppScreenshot.
AppFailed(d, error) ==
    [d EXCEPT !.error = <<error>>,
              !.classification = classifyFailure(error),
              !.trace = tracePath]

-----------------------------------------------------------------------------
\* Navigation strategy engine.

StrategyAttempt(d, strategy) ==
    [d EXCEPT !.navigationStrategyAttempts = Append(@, [strategy |-> strategy])]

\* Mutant of Fallback: the transition is not recorded.
FallbackUnrecorded(d, from, to, reason) == d

Fallback(d, from, to, reason) ==
    [d EXCEPT !.navigationFallbacks =
                 Append(@, [from |-> from, to |-> to, reason |-> reason])]

\* Mutant of MarkUsed: the strategy that navigated is not recorded.
MarkUsedForgotten(d, strategy) == d

\* The assignment of navigationStrategyUsed that ends a try*Strategy function.
MarkUsed(d, strategy) == [d EXCEPT !.navigationStrategyUsed = strategy]

\* Mutant of allowHttp: any value of the variable opts in.
allowHttpWhenSet == Truthy(env.UI_SMOKE_ALLOW_HTTP)

\* navigateWithFallback: the HTTP opt-in.
allowHttp == env.UI_SMOKE_ALLOW_HTTP = "1"

\* navigateWithFallback up to the first page.goto: the branch on allowHttp,
\* and the head of tryHttpStrategy or of tryFileStrategy.
NavigateStart ==
    /\ pc = "navigate"
    /\ LET d == [diagnostics EXCEPT !.navigationHttpOptIn = allowHttp]
       IN IF allowHttp /\ d.baseUrl # Null
          THEN /\ diagnostics' = StrategyAttempt(d, "HTTP")
               /\ pc' = "http"
          ELSE /\ diagnostics' =
                    StrategyAttempt(Fallback(d, "HTTP", "FILE", HttpDisabledReason), "FILE")
               /\ pc' = "file"
    /\ attempt' = 0
    /\ lastError' = <<>>
    /\ UNCHANGED <<env, preflight, probesIssued, playwright, call, finalLine, stdout, persisted,
                   processExitCode, thrown, rejected, server, stopCalls, browser,
                   candidateIdx, failedAt, failure, writeFailures,
                   concludeCalls>>

Attempts(strategy) == IF strategy = "HTTP" THEN HttpAttempts ELSE FileAttempts

\* One iteration of the loop of gotoWithRetry, with what its caller does when
\* the call returns or throws.
Goto(strategy) ==
    LET tried == [diagnostics EXCEPT
                    !.navigationAttempts =
                        Append(@, [url |-> strategy, attempt |-> attempt + 1])]
    IN \/ \* page.goto succeeded
          /\ diagnostics' = MarkUsed(tried, strategy)
          /\ pc' = "click"
          /\ UNCHANGED <<attempt, lastError, thrown, failedAt, failure>>
       \/ \E error \in ErrorTexts :
          LET failed == [tried EXCEPT
                           !.navigationErrors = Append(@, [attempt |-> attempt + 1])]
          IN IF attempt + 1 < Attempts(strategy)
             THEN \* next iteration
                  /\ diagnostics' = failed
                  /\ attempt' = attempt + 1
                  /\ lastError' = <<error>>
                  /\ UNCHANGED <<pc, thrown, failedAt, failure>>
             ELSE IF strategy = "HTTP"
             THEN IF ~isHttpReachabilityError(error)
                  THEN /\ diagnostics' =
                            AppFailed(Fallback(failed, "HTTP", "FILE", error), error)
                       /\ Throw("navigation", error)
                       /\ lastError' = <<error>>
                       /\ UNCHANGED attempt
                  ELSE /\ diagnostics' =
                            StrategyAttempt(Fallback(failed, "HTTP", "FILE", error), "FILE")
                       /\ pc' = "file"
                       /\ attempt' = 0
                       /\ lastError' = <<>>
                       /\ UNCHANGED <<thrown, failedAt, failure>>
             ELSE /\ diagnostics' = Fallback(failed, "FILE", "INLINE", error)
                  /\ pc' = "inline"
                  /\ lastError' = <<error>>
                  /\ UNCHANGED <<attempt, thrown, failedAt, failure>>

tryHttpStrategy ==
    /\ pc = "http"
    /\ Goto("HTTP")
    /\ UNCHANGED <<env, preflight, probesIssued, playwright, call, finalLine, stdout, persisted,
                   processExitCode, rejected, server, stopCalls, browser,
                   candidateIdx, writeFailures, concludeCalls>>

tryFileStrategy ==
    /\ pc = "file"
    /\ Goto("FILE")
    /\ UNCHANGED <<env, preflight, probesIssued, playwright, call, finalLine, stdout, persisted,
                   processExitCode, rejected, server, stopCalls, browser,
                   candidateIdx, writeFailures, concludeCalls>>

tryInlineStrategy ==
    /\ pc = "inline"
    /\ \/ \* fs.readFile throws
          \E error \in ErrorTexts :
          /\ diagnostics' = AppFailed(diagnostics, error)
          /\ Throw("navigation", error)
       \/ \* page.setContent throws
          \E error \in ErrorTexts :
          /\ diagnostics' = AppFailed(StrategyAttempt(diagnostics, "INLINE"), error)
          /\ Throw("navigation", error)
       \/ /\ diagnostics' = MarkUsed(StrategyAttempt(diagnostics, "INLINE"), "INLINE")
          /\ pc' = "click"
          /\ UNCHANGED <<thrown, failedAt, failure>>
    /\ UNCHANGED <<env, preflight, probesIssued, playwright, call, finalLine, stdout, persisted,
                   processExitCode, rejected, server, stopCalls, browser,
                   candidateIdx, attempt, lastError, writeFailures,
                   concludeCalls>>

\* runAppScreenshot: the scripted click.
Click ==
    /\ pc = "click"
    /\ \/ /\ pc' = "screenshot"
          /\ UNCHANGED <<diagnostics, thrown, failedAt, failure>>
       \/ \E error \in ErrorTexts :
          /\ diagnostics' = AppFailed(diagnostics, error)
          /\ Throw("click", error)
    /\ UNCHANGED <<env, preflight, probesIssued, playwright, call, finalLine, stdout, persisted,
                   processExitCode, rejected, server, stopCalls, browser,
                   candidateIdx, attempt, lastError, writeFailures,
                   concludeCalls>>

\* runAppScreenshot: the screenshot, the finally block, and main()'s call of
\* conclude once runAppScreenshot has returned.
Screenshot ==
    /\ pc = "screenshot"
    /\ \/ /\ diagnostics' = [diagnostics EXCEPT !.screenshot = screenshotPath,
                                                !.trace = tracePath]
          /\ CallConclude(PassedConclusion, "tryPassed")
          /\ UNCHANGED <<thrown, failedAt, failure>>
       \/ \E error \in ErrorTexts :
          /\ diagnostics' = AppFailed(diagnostics, error)
          /\ Throw("screenshot", error)
          /\ UNCHANGED call
    /\ UNCHANGED <<env, preflight, probesIssued, playwright, finalLine, stdout, persisted,
                   processExitCode, rejected, server, stopCalls, browser,
                   candidateIdx, attempt, lastError, writeFailures,
                   concludeCalls>>

-----------------------------------------------------------------------------
\* Conclusion.

\* Mutant of ReturnTo: the return after a failed launch leaves main() without
\* running the finally block.
ReturnSkippingFinally(site) ==
    CASE site = "pre" -> "done"
      [] site = "tryLaunch" -> "done"
      [] site = "tryPassed" -> "browserFinally"
      [] site = "catch" -> "finally"
      [] site = "finalizer" -> "done"

\* Where main() continues when conclude returns.
ReturnTo(site) ==
    CASE site = "pre" -> "done"
      [] site = "tryLaunch" -> "finally"
      [] site = "tryPassed" -> "browserFinally"
      [] site = "catch" -> "finally"
      [] site = "finalizer" -> "done"

\* Where main() continues when conclude throws.
ThrowTo(site) ==
    CASE site = "pre" -> "done"
      [] site = "tryLaunch" -> "catch"
      [] site = "tryPassed" -> "browserFinally"
      [] site = "catch" -> "finally"
      [] site = "finalizer" -> "done"

\* conclude(status, classification, details, exit): the record is updated,
\* then written; the summary line and the exit code follow the write.
conclude ==
    /\ pc = "conclude"
    /\ concludeCalls' = concludeCalls + 1
    /\ diagnostics' = [diagnostics EXCEPT !.result = call.status,
                                          !.classification = call.classification,
                                          !.finished = TRUE]
    /\ \/ \* writeDiagnostics resolves
          /\ persisted' = Append(persisted,
                 [result |-> call.status, classification |-> call.classification])
          /\ finalLine' = <<[ui_smoke |-> call.status,
                             classification |-> call.classification]>>
          /\ stdout' = Append(stdout, [ui_smoke |-> call.status,
                                       classification |-> call.classification])
          /\ processExitCode' = call.exit
          /\ pc' = ReturnTo(call.site)
          /\ rejected' = (call.site = "finalizer" /\ thrown # <<>>)
          /\ UNCHANGED <<thrown, writeFailures>>
       \/ \* writeDiagnostics rejects
          /\ writeFailures < MaxWriteFailures
          /\ writeFailures' = writeFailures + 1
          /\ thrown' = <<WriteErrorText>>
          /\ pc' = ThrowTo(call.site)
          /\ rejected' = (call.site \in {"pre", "finalizer"})
          /\ UNCHANGED <<persisted, finalLine, stdout, processExitCode>>
    /\ call' = NoCall
    /\ UNCHANGED <<env, preflight, probesIssued, playwright, server, stopCalls, browser, candidateIdx,
                   attempt, lastError, failedAt, failure>>

\* main(): the finally block of the inner try.
BrowserClose ==
    /\ pc = "browserFinally"
    /\ browser' = "closed"
    /\ pc' = IF thrown # <<>> THEN "catch" ELSE "finally"
    /\ UNCHANGED <<env, preflight, probesIssued, diagnostics, playwright, call, finalLine, stdout,
                   persisted, processExitCode, thrown, rejected, server,
                   stopCalls, candidateIdx, attempt, lastError, failedAt,
                   failure, writeFailures, concludeCalls>>

\* main(): the catch block, up to its call of conclude.
Catch ==
    /\ pc = "catch"
    /\ LET error == thrown[1]
           classification ==
               IF diagnostics.classification = "unknown"
               THEN classifyFailure(error)
               ELSE diagnostics.classification
           skip == classification \in {"binary-installation-failure",
                                       "browser-runtime-failure"}
       IN /\ diagnostics' = [diagnostics EXCEPT
                 !.result = IF skip \/ diagnostics.result = "skipped"
                            THEN "skipped" ELSE "failed",
                 !.error = IF diagnostics.error = <<>> THEN <<error>> ELSE @,
                 !.classification = classification]
          /\ CallConclude(CatchConclusion(classification, diagnostics.strict), "catch")
    /\ thrown' = <<>>
    /\ UNCHANGED <<env, preflight, probesIssued, playwright, finalLine, stdout, persisted,
                   processExitCode, rejected, server, stopCalls, browser,
                   candidateIdx, attempt, lastError, failedAt, failure,
                   writeFailures, concludeCalls>>

\* main(): the finally block of the outer try when a summary line exists.
Finally ==
    /\ pc = "finally"
    /\ server' = "stopped"
    /\ stopCalls' = stopCalls + 1
    /\ finalLine # <<>>
    /\ pc' = "done"
    /\ rejected' = (thrown # <<>>)
    /\ UNCHANGED <<env, preflight, probesIssued, diagnostics, playwright, call, finalLine, stdout,
                   persisted, processExitCode, thrown, browser, candidateIdx,
                   attempt, lastError, failedAt, failure, writeFailures,
                   concludeCalls>>

\* main(): the finally block of the outer try when there is no summary line.
FinallyFinalize ==
    /\ pc = "finally"
    /\ server' = "stopped"
    /\ stopCalls' = stopCalls + 1
    /\ finalLine = <<>>
    /\ CallConclude(FinalizerConclusion, "finalizer")
    /\ UNCHANGED <<env, preflight, probesIssued, diagnostics, playwright, finalLine, stdout,
                   persisted, processExitCode, thrown, rejected, browser,
                   candidateIdx, attempt, lastError, failedAt, failure,
                   writeFailures, concludeCalls>>

-----------------------------------------------------------------------------

Next ==
    \/ ResolvePlaywright
    \/ SkipBrowserDownload
    \/ DetectBrowserExecutables
    \/ RunPlaywrightInstall
    \/ RedetectBrowserExecutables
    \/ startServer
    \/ ServerUnreachable
    \/ LaunchCandidate
    \/ LaunchFailed
    \/ runSanity
    \/ AppContext
    \/ NavigateStart
    \/ tryHttpStrategy
    \/ tryFileStrategy
    \/ tryInlineStrategy
    \/ Click
    \/ Screenshot
    \/ conclude
    \/ BrowserClose
    \/ Catch
    \/ Finally
    \/ FinallyFinalize

Spec == Init /\ [][Next]_vars

-----------------------------------------------------------------------------
\* Properties.

Done == pc = "done"

\* conclude ran to its end: the summary line exists.
Concluded == finalLine # <<>>

Status == finalLine[1].ui_smoke

C2_EveryRunPersistsAndPrintsOneLine ==
    Done => (Len(persisted) >= 1 /\ Len(stdout) = 1)

\* C3: once conclude has written result and classification into the record,
\* no later step changes either of them.
C3_FirstWriteWins ==
    [][concludeCalls >= 1 =>
          /\ diagnostics'.result = diagnostics.result
          /\ diagnostics'.classification = diagnostics.classification]_vars

\* C4: every run with the skip-download flag set that reaches a conclusion
\* concludes skipped, with exit code 1 in strict mode and 0 otherwise.
C4_SkipDownloadAlwaysSkips ==
    (Done /\ Concluded /\ diagnostics.envSkipBrowserDownload) =>
        /\ Status = "skipped"
        /\ processExitCode = (IF diagnostics.strict THEN 1 ELSE 0)

C6_InstallFailureTable ==
    (/\ Done
     /\ diagnostics.installAttempt # <<>>
     /\ ~diagnostics.installAttempt[1].ok
     /\ writeFailures = 0) =>
        /\ Concluded
        /\ ~AllExist(diagnostics.binaryChecks)
        /\ IF diagnostics.installAttempt[1].blocked
           THEN /\ Status = "skipped"
                /\ processExitCode = (IF diagnostics.strict THEN 1 ELSE 0)
           ELSE IF diagnostics.ci /\ ~diagnostics.strict
           THEN Status = "skipped" /\ processExitCode = 0
           ELSE Status = "failed" /\ processExitCode = 1
        /\ server = "none"
        /\ stopCalls = 0
        /\ browser = "none"
        /\ diagnostics.browserAttempts = <<>>

\* The install failed for a reason other than the network, in CI, not strict.
C6_Witness ==
    /\ Done
    /\ diagnostics.installAttempt # <<>>
    /\ ~diagnostics.installAttempt[1].ok
    /\ ~diagnostics.installAttempt[1].blocked
    /\ diagnostics.ci
    /\ ~diagnostics.strict
    /\ Concluded
    /\ Status = "skipped"
    /\ processExitCode = 0

\* C7: when no host became reachable, the run that reaches a conclusion is
\* failed with exit code 1, the classification recorded in the concluded
\* record is connectivity-failure, and no launch was attempted.
C7_UnreachableIsConnectivityFailure ==
    (/\ Done
     /\ Concluded
     /\ server # "none"
     /\ diagnostics.selectedHost = Null
     /\ writeFailures = 0) =>
        /\ Status = "failed"
        /\ processExitCode = 1
        /\ diagnostics.browserAttempts = <<>>
        /\ diagnostics.classification = "connectivity-failure"

\* C8: when a call of the sanity check, the navigation, the click or the
\* screenshot threw (and the diagnostics write succeeded), the conclusion is
\* decided by the class of that error and the strict flag alone: binary or
\* runtime class gives skipped with exit 1 if strict else 0, any other class
\* gives failed, test-failure, exit 1.
C8_LiveFailureDecidedByItsClass ==
    (/\ Done
     /\ failedAt \in {"sanity", "navigation", "click", "screenshot"}
     /\ writeFailures = 0) =>
        /\ Concluded
        /\ IF classifyFailure(failure) \in {"binary-installation-failure",
                                            "browser-runtime-failure"}
           THEN /\ Status = "skipped"
                /\ processExitCode = (IF diagnostics.strict THEN 1 ELSE 0)
           ELSE /\ Status = "failed"
                /\ finalLine[1].classification = "test-failure"
                /\ processExitCode = 1

\* The run ended because binaries were missing or their install failed.
EndedOnMissingBinaries ==
    /\ playwright = "module"
    /\ diagnostics.binaryChecks # <<>>
    /\ ~AllExist(diagnostics.binaryChecks)
    /\ server = "none"

\* The run ended because no candidate could be launched.
EndedOnLaunchFailure ==
    /\ diagnostics.browserAttempts # <<>>
    /\ diagnostics.browserUsed = Null

\* C9: with strict mode unset, a concluded run that ended on missing
\* binaries, a failed install or a launch failure of every candidate is
\* skipped and does not have exit code 1.
C9_InfrastructureNeverFailsByDefault ==
    (/\ Done
     /\ Concluded
     /\ ~diagnostics.strict
     /\ (EndedOnMissingBinaries \/ EndedOnLaunchFailure)) =>
        /\ Status = "skipped"
        /\ processExitCode # 1

\* C10: when a candidate launched and no call made with the live browser
\* threw (and the diagnostics write succeeded), the run ends concluded as
\* passed, success, exit code 0, with the screenshot path recorded and a
\* navigation strategy marked used.
C10_FullSuccessPasses ==
    (/\ Done
     /\ diagnostics.browserUsed # Null
     /\ failedAt = "none"
     /\ writeFailures = 0) =>
        /\ Concluded
        /\ finalLine[1] = [ui_smoke |-> "passed", classification |-> "success"]
        /\ diagnostics.result = "passed"
        /\ diagnostics.classification = "success"
        /\ processExitCode = 0
        /\ ~rejected
        /\ diagnostics.screenshot = screenshotPath
        /\ diagnostics.sanityScreenshot = sanityPath
        /\ diagnostics.navigationStrategyUsed \in {"HTTP", "FILE", "INLINE"}
        /\ persisted = <<[result |-> "passed", classification |-> "success"]>>

\* A passed run that navigated by INLINE after the second candidate launched.
C10_Witness ==
    /\ Done
    /\ Concluded
    /\ Status = "passed"
    /\ processExitCode = 0
    /\ diagnostics.browserUsed = "webkit"
    /\ diagnostics.navigationStrategyUsed = "INLINE"
    /\ diagnostics.screenshot = screenshotPath
    /\ writeFailures = 0

\* C11: once the server has been started, stop() is called at most once
\* while the run goes on, and exactly once by the time the run has ended,
\* whichever way it ends.
C11_StopExactlyOnce ==
    /\ stopCalls <= 1
    /\ (server = "none") => (stopCalls = 0)
    /\ (Done /\ server # "none") => (stopCalls = 1 /\ server = "stopped")

\* A run that ended by the early return after every launch candidate failed.
C11_Witness ==
    /\ Done
    /\ stopCalls = 1
    /\ EndedOnLaunchFailure
    /\ Concluded
    /\ ~rejected

\* C12: when UI_SMOKE_ALLOW_HTTP is not "1", HTTP is never attempted and
\* never marked used, and the first fallback transition recorded, which
\* precedes every strategy attempt, is HTTP to FILE with the fixed reason.
C12_HttpDisabledByDefault ==
    (env.UI_SMOKE_ALLOW_HTTP # "1") =>
        /\ diagnostics.navigationStrategyUsed # "HTTP"
        /\ \A i \in 1..Len(diagnostics.navigationStrategyAttempts) :
               diagnostics.navigationStrategyAttempts[i].strategy # "HTTP"
        /\ \A i \in 1..Len(diagnostics.navigationAttempts) :
               diagnostics.navigationAttempts[i].url # "HTTP"
        /\ (diagnostics.navigationStrategyAttempts # <<>>) =>
               (diagnostics.navigationFallbacks # <<>>)
        /\ (diagnostics.navigationFallbacks # <<>>) =>
               diagnostics.navigationFallbacks[1] =
                   [from |-> "HTTP", to |-> "FILE",
                    reason |-> {"HTTP strategy disabled unless UI_SMOKE_ALLOW_HTTP=1 (default is file-safe mode for remote browser sandboxes)."}]

\* The variable is set, but not to "1": the run navigated by FILE.
C12_Witness ==
    /\ env.UI_SMOKE_ALLOW_HTTP = "true"
    /\ diagnostics.navigationStrategyUsed = "FILE"
    /\ Len(diagnostics.navigationFallbacks) = 1
    /\ diagnostics.navigationFallbacks[1].from = "HTTP"
    /\ Done

\* Every page.goto of the FILE strategy has failed.
FileExhausted ==
    /\ \E i \in 1..Len(diagnostics.navigationAttempts) :
           diagnostics.navigationAttempts[i] = [url |-> "FILE", attempt |-> FileAttempts]
    /\ diagnostics.navigationStrategyUsed # "FILE"

FileToInline ==
    {i \in 1..Len(diagnostics.navigationFallbacks) :
        /\ diagnostics.navigationFallbacks[i].from = "FILE"
        /\ diagnostics.navigationFallbacks[i].to = "INLINE"}

\* C13: once every FILE attempt has failed, whatever the error, the next step
\* of the run is the INLINE strategy, and exactly one transition FILE to
\* INLINE has been recorded, as the last one; INLINE is marked used only
\* after that, and no such transition exists before FILE is exhausted.
C13_FileFallsBackToInline ==
    /\ FileExhausted =>
          /\ Cardinality(FileToInline) = 1
          /\ Len(diagnostics.navigationFallbacks) \in FileToInline
          /\ (diagnostics.navigationStrategyUsed = Null /\ failedAt = "none") => pc = "inline"
          /\ diagnostics.navigationStrategyUsed \in {Null, "INLINE"}
    /\ ~FileExhausted => (FileToInline = {} /\ pc # "inline")
    /\ (diagnostics.navigationStrategyUsed = "INLINE") =>
          /\ FileExhausted
          /\ diagnostics.navigationStrategyAttempts[Len(diagnostics.navigationStrategyAttempts)]
                 = [strategy |-> "INLINE"]

\* HTTP was abandoned, FILE failed with an error without any connectivity
\* signature, INLINE succeeded and the run passed.
C13_Witness ==
    /\ Done
    /\ Concluded
    /\ Status = "passed"
    /\ diagnostics.navigationStrategyUsed = "INLINE"
    /\ Len(diagnostics.navigationFallbacks) = 2
    /\ diagnostics.navigationFallbacks[2] = [from |-> "FILE", to |-> "INLINE", reason |-> {}]

\* C14: when HTTP is opted in and every HTTP attempt has failed, FILE or
\* INLINE is attempted only if the classifier maps the terminal error to
\* connectivity-failure; with any other terminal error that error is the
\* failure of the run.
C14_HttpFallsThroughOnlyOnConnectivityClass ==
    (env.UI_SMOKE_ALLOW_HTTP = "1" /\ diagnostics.navigationFallbacks # <<>>) =>
        LET terminal == diagnostics.navigationFallbacks[1].reason
            laterAttempt ==
                \E i \in 1..Len(diagnostics.navigationStrategyAttempts) :
                    diagnostics.navigationStrategyAttempts[i].strategy \in {"FILE", "INLINE"}
        IN IF classifyFailure(terminal) = "connectivity-failure"
           THEN laterAttempt
           ELSE ~laterAttempt /\ failedAt = "navigation" /\ failure = terminal

\* C15: candidates are attempted one at a time in list order; the browser
\* used is the last one attempted, every candidate before it has a recorded
\* launch error, in order, and none after it is attempted.
C15_SequentialLaunchFallback ==
    LET attempts == diagnostics.browserAttempts
        errors == diagnostics.browserLaunchErrors
    IN /\ Len(attempts) <= Len(candidates)
       /\ attempts = SubSeq(candidates, 1, Len(attempts))
       /\ \A i \in 1..Len(errors) : errors[i].browser = candidates[i]
       /\ IF diagnostics.browserUsed = Null
          THEN Len(errors) = Len(attempts) /\ browser = "none"
          ELSE /\ attempts # <<>>
               /\ diagnostics.browserUsed = attempts[Len(attempts)]
               /\ Len(errors) = Len(attempts) - 1
               /\ browser # "none"

\* The first candidate failed to launch and the second one is used.
C15_Witness ==
    /\ Done
    /\ diagnostics.browserAttempts = <<"chromium", "webkit">>
    /\ diagnostics.browserUsed = "webkit"
    /\ Len(diagnostics.browserLaunchErrors) = 1
    /\ diagnostics.browserLaunchErrors[1].browser = "chromium"

\* ---------------------------------------------------------------------------
\* The two classifiers as pure functions: every error text made of the
\* fragments either of them looks for, classified by both.
\* ---------------------------------------------------------------------------

UnsetEnv ==
    [CI |-> "unset", PLAYWRIGHT_STRICT |-> "unset",
     PLAYWRIGHT_SKIP_BROWSER_DOWNLOAD |-> "unset", UI_SMOKE_ALLOW_HTTP |-> "unset"]

InitClassify ==
    /\ env = UnsetEnv
    /\ \E text \in SUBSET Fragments : MainAt("classify", text)
    /\ preflight = [NoPreflight EXCEPT !.pc = "classify"]

\* classifyFailure(error) applied to the text.
ClassifyFailure ==
    /\ pc = "classify"
    /\ pc' = "classified"
    /\ diagnostics' = [diagnostics EXCEPT !.classification = classifyFailure(failure)]
    /\ UNCHANGED <<env, preflight, probesIssued, playwright, call, finalLine, stdout, persisted,
                   processExitCode, thrown, rejected, server, stopCalls, browser,
                   candidateIdx, attempt, lastError, failedAt, failure,
                   writeFailures, concludeCalls>>

\* classifyBrowserLaunchError(error) applied to the same text.
ClassifyBrowserLaunchError ==
    /\ preflight.pc = "classify"
    /\ preflight' = [preflight EXCEPT
                       !.pc = "classified",
                       !.result.classification = classifyBrowserLaunchError(failure)]
    /\ UNCHANGED <<env, probesIssued, diagnostics, pc, playwright, call, finalLine,
                   stdout, persisted, processExitCode, thrown, rejected, server,
                   stopCalls, browser, candidateIdx, attempt, lastError,
                   failedAt, failure, writeFailures, concludeCalls>>

NextClassify == ClassifyFailure \/ ClassifyBrowserLaunchError

SpecClassify == InitClassify /\ [][NextClassify]_vars

\* ---------------------------------------------------------------------------
\* playwrightPreflight() of src/playwright/preflight.mjs, run on its own.
\* preflight.open is the set of browsers launched and not closed.
\* ---------------------------------------------------------------------------

\* Largest number of signature fragments in one error text of a trial launch.
MaxFragments == 2

PreflightErrorTexts == {text \in SUBSET Fragments : Cardinality(text) <= MaxFragments}

\* The engines canLaunch is called for, in call order.
PreflightBrowsers == <<"webkit", "chromium">>

InitPreflight ==
    /\ env = UnsetEnv
    /\ MainAt("idle", {})
    /\ preflight = [NoPreflight EXCEPT !.pc = "import"]

\* The steps of playwrightPreflight leave main()'s state alone.
PreflightOnly ==
    UNCHANGED <<env, probesIssued, diagnostics, pc, playwright, call, finalLine,
                stdout, persisted, processExitCode, thrown, rejected, server,
                stopCalls, browser, candidateIdx, attempt, lastError, failedAt,
                failure, writeFailures, concludeCalls>>

\* An awaited call inside canLaunch throws: control reaches the catch block of
\* playwrightPreflight with nothing in between.
CanLaunchThrows(error) ==
    preflight' = [preflight EXCEPT !.pc = "catch", !.error = error]

\* import('playwright') and the catch block around it.
PreflightImport ==
    /\ preflight.pc = "import"
    /\ \E outcome \in ImportOutcomes :
          preflight' =
            IF outcome.ok THEN [preflight EXCEPT !.pc = "launch"]
            ELSE IF looksLikeMissingPlaywright(outcome)
            THEN [preflight EXCEPT
                    !.pc = "returned",
                    !.result = [ok |-> FALSE, reason |-> "playwright-missing",
                                classification |-> "binary-installation-failure",
                                message |-> {}]]
            ELSE [preflight EXCEPT !.pc = "threw", !.error = outcome.text]
    /\ PreflightOnly

\* canLaunch: browserType.launch(options).
CanLaunchLaunch ==
    /\ preflight.pc = "launch"
    /\ \/ preflight' = [preflight EXCEPT
                          !.pc = "newPage",
                          !.open = @ \cup {PreflightBrowsers[preflight.index]}]
       \/ \E error \in PreflightErrorTexts : CanLaunchThrows(error)
    /\ PreflightOnly

\* canLaunch: browser.newPage().
CanLaunchNewPage ==
    /\ preflight.pc = "newPage"
    /\ \/ preflight' = [preflight EXCEPT !.pc = "goto"]
       \/ \E error \in PreflightErrorTexts : CanLaunchThrows(error)
    /\ PreflightOnly

\* canLaunch: page.goto('about:blank').
CanLaunchGoto ==
    /\ preflight.pc = "goto"
    /\ \/ preflight' = [preflight EXCEPT !.pc = "close"]
       \/ \E error \in PreflightErrorTexts : CanLaunchThrows(error)
    /\ PreflightOnly

\* canLaunch: browser.close() and the return; playwrightPreflight goes on to
\* the next engine or returns the ready result.
CanLaunchClose ==
    /\ preflight.pc = "close"
    /\ LET closed == [preflight EXCEPT
                        !.open = @ \ {PreflightBrowsers[preflight.index]}]
       IN preflight' =
            IF preflight.index < Len(PreflightBrowsers)
            THEN [closed EXCEPT !.pc = "launch", !.index = @ + 1]
            ELSE [closed EXCEPT
                    !.pc = "returned",
                    !.result = [ok |-> TRUE, reason |-> "ready",
                                classification |-> "ready", message |-> {}]]
    /\ PreflightOnly

\* The catch block around the two canLaunch calls.
PreflightCatch ==
    /\ preflight.pc = "catch"
    /\ preflight' =
         [preflight EXCEPT
            !.pc = "returned",
            !.result =
                IF looksLikeMissingBrowserBinary(preflight.error)
                THEN [ok |-> FALSE, reason |-> "browser-binaries-missing",
                      classification |-> "binary-installation-failure",
                      message |-> {}]
                ELSE [ok |-> FALSE, reason |-> "browser-launch-failed",
                      classification |-> classifyBrowserLaunchError(preflight.error),
                      message |-> preflight.error]]
    /\ PreflightOnly

NextPreflight ==
    \/ PreflightImport
    \/ CanLaunchLaunch
    \/ CanLaunchNewPage
    \/ CanLaunchGoto
    \/ CanLaunchClose
    \/ PreflightCatch

SpecPreflight == InitPreflight /\ [][NextPreflight]_vars

\* C16: both classifiers test the signature classes in the fixed order binary
\* installation, connectivity, runtime: a text with a binary-installation
\* signature is binary-installation-failure whatever else it holds; without
\* one, a text with a connectivity signature is connectivity-failure even when
\* a runtime signature is present; without either, a runtime signature gives
\* browser-runtime-failure; a text with none gets the classifier's default.
C16_ClassifierPriority ==
    /\ pc = "classified" =>
          LET binary == TextMatches(failure, MissingBrowserBinarySignatures)
              connectivity == TextMatches(failure, ConnectivitySignatures)
              runtime == TextMatches(failure, RuntimeSignatures)
              c == diagnostics.classification
          IN /\ binary => c = "binary-installation-failure"
             /\ (~binary /\ connectivity) => c = "connectivity-failure"
             /\ (~binary /\ ~connectivity /\ runtime) => c = "browser-runtime-failure"
             /\ (~binary /\ ~connectivity /\ ~runtime) => c = "application-failure"
    /\ preflight.pc = "classified" =>
          LET binary == TextMatches(failure, PreflightBinarySignatures)
              connectivity == TextMatches(failure, PreflightConnectivitySignatures)
              runtime == TextMatches(failure, PreflightRuntimeSignatures)
              c == preflight.result.classification
          IN /\ binary => c = "binary-installation-failure"
             /\ (~binary /\ connectivity) => c = "connectivity-failure"
             /\ (~binary /\ ~connectivity /\ runtime) => c = "browser-runtime-failure"
             /\ (~binary /\ ~connectivity /\ ~runtime) => c = "unknown-browser-failure"

\* A text holding a signature of each of the three classes has been classified
\* by both classifiers, and one holding connectivity and runtime signatures only
\* would be told apart from it.
C16_Witness ==
    /\ pc = "classified"
    /\ preflight.pc = "classified"
    /\ failure = {"Executable doesn't exist", "ECONNREFUSED", "crash"}
    /\ diagnostics.classification = "binary-installation-failure"
    /\ preflight.result.classification = "binary-installation-failure"

\* The index in hosts of the first host with an ok health check, 0 if none.
FirstOkHost(checks) ==
    LET reachable == {i \in 1..Len(hosts) :
                        \E k \in 1..Len(checks) : checks[k].host = hosts[i] /\ checks[k].ok}
    IN IF reachable = {} THEN 0
       ELSE CHOOSE i \in reachable : \A j \in reachable : i <= j

\* C17: once the server has been started, selectedHost is the first host, in
\* the order 127.0.0.1 then localhost, with a health check that returned ok,
\* and null exactly when no recorded check returned ok; serverHealthChecks has
\* one entry per probe issued; both hosts have been probed, each until its
\* first ok check.
C17_ServerReadiness ==
    server # "none" =>
        LET checks == diagnostics.serverHealthChecks
            first == FirstOkHost(checks)
        IN /\ diagnostics.selectedHost = (IF first = 0 THEN Null ELSE hosts[first])
           /\ (diagnostics.selectedHost = Null) <=>
                 (\A k \in 1..Len(checks) : ~checks[k].ok)
           /\ Len(checks) = probesIssued
           /\ \A i \in 1..Len(hosts) : \E k \in 1..Len(checks) : checks[k].host = hosts[i]
           /\ \A k \in 1..Len(checks) :
                 checks[k].ok => (k = Len(checks) \/ checks[k + 1].host # checks[k].host)

\* Both hosts answered, 127.0.0.1 after a failed probe, and 127.0.0.1 stayed
\* selected.
C17_Witness ==
    /\ server # "none"
    /\ diagnostics.selectedHost = "127.0.0.1"
    /\ \E k \in 1..Len(diagnostics.serverHealthChecks) :
          /\ diagnostics.serverHealthChecks[k].host = "localhost"
          /\ diagnostics.serverHealthChecks[k].ok
    /\ \E k \in 1..Len(diagnostics.serverHealthChecks) :
          /\ diagnostics.serverHealthChecks[k].host = "127.0.0.1"
          /\ ~diagnostics.serverHealthChecks[k].ok

\* C18: the CI indicator has one meaning: the flag diagnostics.ci, the
\* narrowing of the detection targets, of the install command and of the launch
\* candidates to one engine, and the relaxed strictness after a failed install
\* all happen exactly when CI is "true".
C18_CiHasOneMeaning ==
    LET ci == env.CI = "true"
    IN /\ diagnostics.ci <=> ci
       /\ diagnostics.binaryChecks # <<>> =>
             ((Len(diagnostics.binaryChecks) = 1) <=> ci)
       /\ diagnostics.installAttempt # <<>> =>
             ((\A i \in 1..Len(diagnostics.installAttempt[1].command) :
                  diagnostics.installAttempt[1].command[i] # "webkit") <=> ci)
       /\ (call.site = "tryLaunch") =>
             ((Len(diagnostics.browserAttempts) = 1) <=> ci)
       /\ (/\ Concluded
           /\ diagnostics.installAttempt # <<>>
           /\ ~diagnostics.installAttempt[1].ok
           /\ ~diagnostics.installAttempt[1].blocked
           /\ server = "none"
           /\ ~diagnostics.strict
           /\ writeFailures = 0) =>
             ((Status = "skipped") <=> ci)

\* The place of a strategy in the order HTTP, FILE, INLINE.
StrategyRank(strategy) ==
    CASE strategy = "HTTP" -> 1
      [] strategy = "FILE" -> 2
      [] strategy = "INLINE" -> 3

\* navigateWithFallback has returned: the run is at, or has been past, the
\* click that follows it.
NavigationCompleted ==
    \/ pc \in {"click", "screenshot"}
    \/ failedAt \in {"click", "screenshot"}
    \/ diagnostics.screenshot # Null

\* The strategy attempts are in the order HTTP, FILE, INLINE; the used strategy
\* is set exactly when navigation has completed, and is then the last strategy
\* attempted, every strategy attempted before it having a recorded fallback
\* away from it.
OneStrategyUsed ==
    LET attempts == diagnostics.navigationStrategyAttempts
        used == diagnostics.navigationStrategyUsed
    IN /\ \A i, j \in 1..Len(attempts) :
             i < j => StrategyRank(attempts[i].strategy) < StrategyRank(attempts[j].strategy)
       /\ (used # Null) <=> NavigationCompleted
       /\ (used # Null) =>
             /\ attempts # <<>>
             /\ used = attempts[Len(attempts)].strategy
             /\ \A i \in 1..(Len(attempts) - 1) :
                   \E k \in 1..Len(diagnostics.navigationFallbacks) :
                       diagnostics.navigationFallbacks[k].from = attempts[i].strategy

\* C19: strategies are attempted in the order HTTP, FILE, INLINE;
\* navigationStrategyUsed is null until navigation completes, is then the
\* first strategy whose attempt succeeded, is never assigned again, and no
\* strategy is attempted once it is set.
C19_ExactlyOneStrategyUsed ==
    /\ []OneStrategyUsed
    /\ [][diagnostics.navigationStrategyUsed # Null =>
            /\ diagnostics'.navigationStrategyUsed = diagnostics.navigationStrategyUsed
            /\ diagnostics'.navigationStrategyAttempts = diagnostics.navigationStrategyAttempts
            /\ diagnostics'.navigationAttempts = diagnostics.navigationAttempts]_vars

\* HTTP was opted in and failed, FILE navigated: the run is at the click with
\* FILE marked used.
C19_Witness ==
    /\ pc = "click"
    /\ diagnostics.navigationStrategyUsed = "FILE"
    /\ Len(diagnostics.navigationStrategyAttempts) = 2
    /\ diagnostics.navigationStrategyAttempts[1].strategy = "HTTP"

\* C20: a browser that was launched is closed before the operation that
\* launched it is left, by return or by exception: none is open when main()
\* has ended, and none is open when a canLaunch call of the preflight has
\* thrown or playwrightPreflight has returned.
C20_BrowsersClosedOnEveryExit ==
    /\ Done => browser # "open"
    /\ (preflight.pc \in {"catch", "returned", "threw"}) => (preflight.open = {})

\* C21: in a run that started the server, stop() has completed before the
\* conclusion that sets the exit code and emits the summary line: whenever the
\* summary line exists, the server is stopped.
C21_ServerStoppedBeforeConclusion ==
    (Concluded /\ server # "none") => (server = "stopped" /\ stopCalls = 1)

\* C22: outside CI WebKit is the first candidate attempted, so that it is the
\* browser used whenever it can be launched (another browser is used only
\* after a recorded launch error of WebKit); in CI Chromium is the only
\* candidate attempted.
C22_WebKitFirstOutsideCi ==
    /\ (env.CI = "unset" /\ diagnostics.browserAttempts # <<>>) =>
          /\ diagnostics.browserAttempts[1] = "webkit"
          /\ (diagnostics.browserUsed \notin {Null, "webkit"}) =>
                \E k \in 1..Len(diagnostics.browserLaunchErrors) :
                    diagnostics.browserLaunchErrors[k].browser = "webkit"
    /\ (env.CI = "true") =>
          \A k \in 1..Len(diagnostics.browserAttempts) :
              diagnostics.browserAttempts[k] = "chromium"

\* C23: the two classifiers are the same function up to their default: for
\* every error text, when either returns binary-installation-failure,
\* connectivity-failure or browser-runtime-failure the other returns the same
\* class, and classifyFailure returns application-failure exactly when
\* classifyBrowserLaunchError returns unknown-browser-failure.
C23_ClassifiersAgreeUpToDefault ==
    (pc = "classified" /\ preflight.pc = "classified") =>
        LET orchestrator == diagnostics.classification
            probe == preflight.result.classification
            Shared == {"binary-installation-failure", "connectivity-failure",
                       "browser-runtime-failure"}
        IN /\ (orchestrator \in Shared \/ probe \in Shared) => orchestrator = probe
           /\ (orchestrator = "application-failure") <=> (probe = "unknown-browser-failure")

\* C24: in every state of a run diagnostics.result is one of running, passed,
\* failed and skipped.
C24_ResultIsARunState ==
    diagnostics.result \in {"running", "passed", "failed", "skipped"}

\* navigateWithFallback is not running: it has not been called, has returned
\* or has thrown.
NavigationOver == pc \notin {"navigate", "http", "file", "inline"}

\* C25: once navigation is over, every recorded fallback transition names in
\* 'to' a strategy with a recorded attempt: HTTP->FILE is recorded only when
\* FILE is then attempted, FILE->INLINE only when INLINE is then attempted.
C25_FallbackFollowedByAttempt ==
    NavigationOver =>
        \A k \in 1..Len(diagnostics.navigationFallbacks) :
            \E i \in 1..Len(diagnostics.navigationStrategyAttempts) :
                diagnostics.navigationStrategyAttempts[i].strategy =
                    diagnostics.navigationFallbacks[k].to

\* C26: a run whose summary line says passed captured the application
\* screenshot: diagnostics.screenshot is recorded, a navigation strategy is
\* marked used and no step of the browser phase raised an error; this includes
\* the summary line the finalizer of the finally block emits.
C26_PassedOnlyWithScreenshot ==
    (Concluded /\ Status = "passed") =>
        /\ diagnostics.screenshot # Null
        /\ diagnostics.navigationStrategyUsed # Null
        /\ failedAt = "none"

====
